---- MODULE Spec2Model ----
(***************************************************************************)
(* MRZ scanner (app/pages/index.vue): the line extractor, the line         *)
(* normalizer (cleanMrzLine), the 7-3-1 check digit, the TD3 and TD1       *)
(* decoders and the sliding-window format resolver of processMrz.          *)
(*                                                                         *)
(* A JavaScript string is a sequence of one-character strings, so that     *)
(* substring, split, replace, padEnd and the regular expressions of the    *)
(* source are computed position by position.                               *)
(***************************************************************************)
EXTENDS Integers, Sequences, FiniteSets, TLC

VARIABLES
    pc,            \* position of the running processMrz call / of the function under study
    text,          \* the text returned by worker.recognize
    mrzLines,      \* processMrz: the cleaned candidate lines
    result,        \* processMrz: let result (Null or a UnifiedMrzResult)
    c1i, c2i, c3i, \* processMrz: positions (0-based) of the for-of loops over the candidates
    nTD3, nTD1,    \* number of parseTD3 / parseTD1 invocations made by tryParseCustom
    lastCall,      \* the latest decoder invocation: the decoder and its lines (Null before any)
    isProcessing, rawMrzText, parsedResult, error,   \* the page's refs
    file,          \* ref file: the selected file (Null when none)
    imagePreview,  \* ref imagePreview: the file whose data URL is shown (Null when none)
    loading,       \* the files whose FileReader has not called onload yet
    input,         \* processMrz: let input, the file the call hands to worker.recognize
    arg,           \* argument of the function under study
    ret            \* its returned value

vars == <<pc, text, mrzLines, result, c1i, c2i, c3i, nTD3, nTD1, lastCall,
          isProcessing, rawMrzText, parsedResult, error, file, imagePreview,
          loading, input, arg, ret>>

pageVars == <<file, imagePreview, loading, input>>

pipeVars == <<text, mrzLines, result, c1i, c2i, c3i, nTD3, nTD1, lastCall,
              isProcessing, rawMrzText, parsedResult, error, file, imagePreview,
              loading, input>>

\* null, distinct from every record and error entry
Null == [null |-> TRUE]

(***************************************************************************)
(* Characters and the JavaScript string primitives the source uses.        *)
(***************************************************************************)
Digits == <<"0","1","2","3","4","5","6","7","8","9">>
Uppers == <<"A","B","C","D","E","F","G","H","I","J","K","L","M",
            "N","O","P","Q","R","S","T","U","V","W","X","Y","Z">>
Lowers == <<"a","b","c","d","e","f","g","h","i","j","k","l","m",
            "n","o","p","q","r","s","t","u","v","w","x","y","z">>

Range(s) == {s[i] : i \in 1..Len(s)}
DigitSet == Range(Digits)
UpperSet == Range(Uppers)
LowerSet == Range(Lowers)
IndexOf(s, c) == CHOOSE i \in 1..Len(s) : s[i] = c

\* /[0-9]/.test(c), /[A-Z]/.test(c), /\s/ on one character
IsDigit(c) == c \in DigitSet
IsUpper(c) == c \in UpperSet
IsSpace(c) == c \in {" ", "\t", "\r", "\n"}

Min(a, b) == IF a < b THEN a ELSE b
Max(a, b) == IF a > b THEN a ELSE b

\* a run of n copies of character c
Rep(c, n) == [i \in 1..n |-> c]

\* char.charCodeAt(0)
charCodeAt(c) ==
    IF c \in UpperSet THEN 64 + IndexOf(Uppers, c)
    ELSE IF c \in LowerSet THEN 96 + IndexOf(Lowers, c)
    ELSE IF c \in DigitSet THEN 47 + IndexOf(Digits, c)
    ELSE IF c = "<" THEN 60
    ELSE IF c = " " THEN 32
    ELSE IF c = "\n" THEN 10
    ELSE 0

\* String.prototype.toUpperCase
toUpperCase(s) ==
    [i \in 1..Len(s) |-> IF s[i] \in LowerSet THEN Uppers[IndexOf(Lowers, s[i])] ELSE s[i]]

\* s.substring(a, b), 0-based and half-open, with the indexes clamped to the length
substring(s, a, b) == SubSeq(s, Min(a, Len(s)) + 1, Min(b, Len(s)))

\* s.substring(a)
substringFrom(s, a) == SubSeq(s, Min(a, Len(s)) + 1, Len(s))

\* s[i], 0-based; undefined past the end
charAt(s, i) == IF i < Len(s) THEN s[i + 1] ELSE "undefined"

\* s.startsWith(p)
startsWith(s, p) == Len(s) >= Len(p) /\ SubSeq(s, 1, Len(p)) = p

\* s.padEnd(n, '<')
padEnd(s, n) == IF Len(s) >= n THEN s ELSE s \o Rep("<", n - Len(s))

\* s.replace(/</g, '')
RECURSIVE stripFillers(_)
stripFillers(s) ==
    IF s = <<>> THEN <<>>
    ELSE IF Head(s) = "<" THEN stripFillers(Tail(s))
    ELSE <<Head(s)>> \o stripFillers(Tail(s))

\* s.replace(/</g, ' ')
fillersToSpaces(s) == [i \in 1..Len(s) |-> IF s[i] = "<" THEN " " ELSE s[i]]

\* s.replace(/\s/g, '')
NonSpace(c) == ~IsSpace(c)
stripSpaces(s) == SelectSeq(s, NonSpace)

\* s.trim()
RECURSIVE trimStart(_)
trimStart(s) == IF s # <<>> /\ IsSpace(Head(s)) THEN trimStart(Tail(s)) ELSE s
\* the number of white-space characters that end s, counted from n upwards
RECURSIVE trailingSpaces(_, _)
trailingSpaces(s, n) ==
    IF n < Len(s) /\ IsSpace(s[Len(s) - n]) THEN trailingSpaces(s, n + 1) ELSE n
trimEnd(s) == SubSeq(s, 1, Len(s) - trailingSpaces(s, 0))
trim(s) == trimEnd(trimStart(s))

\* The value parseInt yields when no digit leads the string.
NaN == -1

\* parseInt(s, 10) of a string of the scanner's alphabet: the leading digits, else NaN
RECURSIVE digitPrefixLen(_)
digitPrefixLen(s) ==
    IF s # <<>> /\ IsDigit(Head(s)) THEN 1 + digitPrefixLen(Tail(s)) ELSE 0
RECURSIVE digitsValue(_)
digitsValue(s) ==
    IF s = <<>> THEN 0
    ELSE 10 * digitsValue(SubSeq(s, 1, Len(s) - 1)) + (IndexOf(Digits, s[Len(s)]) - 1)
parseInt(s) ==
    LET t == trimStart(s)
        n == digitPrefixLen(t)
    IN  IF n = 0 THEN NaN ELSE digitsValue(SubSeq(t, 1, n))
isNaN(v) == v = NaN

\* `${n}` of a number: its decimal digits without leading zeros, "NaN" for NaN
RECURSIVE numberToString(_)
numberToString(n) ==
    IF n = NaN THEN <<"N", "a", "N">>
    ELSE IF n < 10 THEN <<Digits[n + 1]>>
    ELSE numberToString(n \div 10) \o <<Digits[(n % 10) + 1]>>

(***************************************************************************)
(* cleanMrzLine: the four ordered repairs of one candidate line.           *)
(***************************************************************************)
Confusable == {"S", "L", "C", "K"}
\* mutant: an A at the end of the line is taken for a filler too
TailClass_WithA == {"L", "C", "K", "<", "A"}

TailClass == {"L", "C", "K", "<"}
LetterOrFiller(c) == IsUpper(c) \/ c = "<"

\* /^P[SLCK][A-Z<]{3}/.test(s), with the leading letter as a parameter
startNeedsFix(s, lead) ==
    /\ Len(s) >= 5
    /\ s[1] = lead
    /\ s[2] \in Confusable
    /\ \A i \in 3..5 : LetterOrFiller(s[i])

\* rule 1
fixStart(s) ==
    LET p == IF startNeedsFix(s, "P") THEN <<"P", "<">> \o substringFrom(s, 2) ELSE s
    IN  IF startNeedsFix(p, "I") THEN <<"I", "<">> \o substringFrom(p, 2) ELSE p

\* mutant: /<[CL](?=[A-Z])/, whatever stands before the filler
sepMatchLen_AnyBefore(s, pos) ==
    IF /\ pos = 1
       /\ Len(s) >= 3
       /\ s[1] = "<" /\ s[2] \in {"C", "L"} /\ IsUpper(s[3])
    THEN 2
    ELSE IF /\ pos + 3 <= Len(s)
            /\ s[pos + 1] = "<" /\ s[pos + 2] \in {"C", "L"} /\ IsUpper(s[pos + 3])
    THEN 3
    ELSE 0

\* /(^|[^<])<[CL](?=[A-Z])/ matched at 1-based position pos: the length of the
\* match (2 by the ^ alternative, 3 by the [^<] one), 0 when there is none
sepMatchLen(s, pos) ==
    IF /\ pos = 1
       /\ Len(s) >= 3
       /\ s[1] = "<" /\ s[2] \in {"C", "L"} /\ IsUpper(s[3])
    THEN 2
    ELSE IF /\ pos + 3 <= Len(s)
            /\ s[pos] # "<"
            /\ s[pos + 1] = "<" /\ s[pos + 2] \in {"C", "L"} /\ IsUpper(s[pos + 3])
    THEN 3
    ELSE 0

\* the character at pos is the [CL] of a match: of one that starts at pos - 1 by
\* the ^ alternative or at pos - 2 by the [^<] one
sepLetterAt(s, pos) ==
    IF pos >= 2 /\ sepMatchLen(s, pos - 1) = 2 THEN TRUE
    ELSE pos >= 3 /\ sepMatchLen(s, pos - 2) = 3

\* rule 2: cleaned.replace(/(^|[^<])<[CL](?=[A-Z])/g, '$1<<'). Two matches never
\* overlap (a match starts on a non-filler or at the start of the line, has a
\* filler next and a letter after its [CL]), so the replacement puts a filler
\* on the [CL] of every match and keeps the other characters.
fixSeparators(s) == [i \in 1..Len(s) |-> IF sepLetterAt(s, i) THEN "<" ELSE s[i]]

\* the length of the maximal run of [LCK<] that ends the line
RECURSIVE tailRunFrom(_, _)
tailRunFrom(s, n) ==
    IF n < Len(s) /\ s[Len(s) - n] \in TailClass THEN tailRunFrom(s, n + 1) ELSE n
tailRunLen(s) == tailRunFrom(s, 0)

\* rule 3: cleaned.match(/[LCK<]{3,}$/) and the replacement of its letters
fixTail(s) ==
    LET n == tailRunLen(s)
    IN  IF n >= 3 /\ \E i \in (Len(s) - n + 1)..Len(s) : s[i] # "<"
        THEN SubSeq(s, 1, Len(s) - n) \o Rep("<", n)
        ELSE s

\* mutant: a short line is left short
fixLength_None(s) == s

\* mutant: only passport lines are padded
fixLength_PassportOnly(s) ==
    IF startsWith(s, <<"P", "<">>) /\ Len(s) < 44 /\ Len(s) > 30 THEN padEnd(s, 44) ELSE s

\* rule 4
fixLength(s) ==
    LET p == IF startsWith(s, <<"P", "<">>) /\ Len(s) < 44 /\ Len(s) > 30
             THEN padEnd(s, 44) ELSE s
    IN  IF startsWith(p, <<"I", "<">>) /\ Len(p) < 30 /\ Len(p) > 20
        THEN padEnd(p, 30) ELSE p

cleanMrzLine(line) == fixLength(fixTail(fixSeparators(fixStart(toUpperCase(line)))))

(***************************************************************************)
(* The 7-3-1 check digit.                                                  *)
(***************************************************************************)
\* mutant: a weight that shares a factor with 10
weights_Five == <<7, 5, 1>>

weights == <<7, 3, 1>>

\* mutant: the letters are counted from A = 1
getCharValue_FromOne(char) ==
    IF IsDigit(char) THEN parseInt(<<char>>)
    ELSE IF IsUpper(char) THEN charCodeAt(char) - 64
    ELSE 0

getCharValue(char) ==
    IF IsDigit(char) THEN parseInt(<<char>>)
    ELSE IF IsUpper(char) THEN charCodeAt(char) - 55
    ELSE 0

\* the loop of calculateCheckDigit from index i (0-based) with the running sum
RECURSIVE checkDigitLoop(_, _, _)
checkDigitLoop(data, i, sum) ==
    IF i < Len(data)
    THEN checkDigitLoop(data, i + 1, sum + getCharValue(data[i + 1]) * weights[(i % 3) + 1])
    ELSE sum

\* mutant: the weights are forgotten
RECURSIVE plainSum(_)
plainSum(data) == IF data = <<>> THEN 0 ELSE getCharValue(Head(data)) + plainSum(Tail(data))
calculateCheckDigit_Unweighted(data) == plainSum(data) % 10

calculateCheckDigit(data) == checkDigitLoop(data, 0, 0) % 10

\* mutant: a check character that is no digit is read as 0
verifyField_CoerceZero(fieldValue, checkDigitChar, type, line) ==
    IF calculateCheckDigit(fieldValue)
           # (IF isNaN(parseInt(<<checkDigitChar>>)) THEN 0 ELSE parseInt(<<checkDigitChar>>))
    THEN [kind |-> "check failed", type |-> type, line |-> line,
          expected |-> calculateCheckDigit(fieldValue), found |-> checkDigitChar,
          value |-> fieldValue]
    ELSE Null

\* mutant: the line is reported by its 0-based index
verifyField_ZeroBased(fieldValue, checkDigitChar, type, line) ==
    IF isNaN(parseInt(<<checkDigitChar>>))
    THEN [kind |-> "Invalid check digit format", type |-> type, line |-> line - 1,
          found |-> <<checkDigitChar>>]
    ELSE IF calculateCheckDigit(fieldValue) # parseInt(<<checkDigitChar>>)
    THEN [kind |-> "check failed", type |-> type, line |-> line - 1,
          expected |-> calculateCheckDigit(fieldValue), found |-> parseInt(<<checkDigitChar>>),
          value |-> fieldValue]
    ELSE Null

\* verifyField: Null when the field verifies, else the error entry.  The error
\* string of the source is kept as its parts: the kind of message, the field
\* label (type), the line number and the values it interpolates.
verifyField(fieldValue, checkDigitChar, type, line) ==
    LET calculated == calculateCheckDigit(fieldValue)
        expected == parseInt(<<checkDigitChar>>)
    IN  IF isNaN(expected)
        THEN [kind |-> "Invalid check digit format", type |-> type, line |-> line,
              found |-> <<checkDigitChar>>]
        ELSE IF calculated # expected
        THEN [kind |-> "check failed", type |-> type, line |-> line,
              expected |-> calculated, found |-> expected, value |-> fieldValue]
        ELSE Null

\* errors.push(err) when err is not null
push(errors, err) == IF err = Null THEN errors ELSE Append(errors, err)

(***************************************************************************)
(* The decoders.                                                           *)
(***************************************************************************)
\* the position (1-based) of the first "<<" of s at or after pos, 0 when none
RECURSIVE findSep(_, _)
findSep(s, pos) ==
    IF pos + 1 > Len(s) THEN 0
    ELSE IF s[pos] = "<" /\ s[pos + 1] = "<" THEN pos
    ELSE findSep(s, pos + 1)

\* s.split('<<')
RECURSIVE splitFrom(_, _)
splitFrom(s, start) ==
    IF findSep(s, start) = 0 THEN <<SubSeq(s, start, Len(s))>>
    ELSE <<SubSeq(s, start, findSep(s, start) - 1)>> \o splitFrom(s, findSep(s, start) + 2)
split(s) == splitFrom(s, 1)

\* s.replace(/<+$/, '')
RECURSIVE trailingFillers(_, _)
trailingFillers(s, n) ==
    IF n < Len(s) /\ s[Len(s) - n] = "<" THEN trailingFillers(s, n + 1) ELSE n
stripTrailingFillers(s) == SubSeq(s, 1, Len(s) - trailingFillers(s, 0))

\* includes('<')
includesFiller(s) == \E i \in 1..Len(s) : s[i] = "<"

\* the year of formatYMD: `19${yy}` when yy > 50, else `20${yy}` (a comparison
\* with NaN is false)
yearOf(yy) ==
    IF yy # NaN /\ yy > 50
    THEN <<"1", "9">> \o numberToString(yy)
    ELSE <<"2", "0">> \o numberToString(yy)

\* formatYMD of parseTD3
formatYMD_TD3(val) ==
    IF Len(val) # 6 \/ includesFiller(val) THEN val
    ELSE yearOf(parseInt(substring(val, 0, 2)))
             \o <<"-">> \o substring(val, 2, 4) \o <<"-">> \o substring(val, 4, 6)

\* formatYMD of parseTD1
formatYMD_TD1(val) ==
    IF Len(val) # 6 \/ includesFiller(val) THEN val
    ELSE yearOf(parseInt(substring(val, 0, 2)))
             \o <<"-">> \o substring(val, 2, 4) \o <<"-">> \o substring(val, 4, 6)

\* surname and given names from the parts of a split name zone
surnameOf(nameParts) == trim(fillersToSpaces(nameParts[1]))
givenNamesOf(nameParts) ==
    IF Len(nameParts) > 1 THEN trim(fillersToSpaces(nameParts[2])) ELSE <<>>

\* mutant: one error is tolerated
statusOf_Lenient(errors) == IF Len(errors) <= 1 THEN "VALID" ELSE "INVALID"

\* verification_status: errors.length === 0 ? 'VALID' : 'INVALID'
statusOf(errors) == IF Len(errors) = 0 THEN "VALID" ELSE "INVALID"

\* mutant: the composite check covers the whole of line 2 before its last column
errorsTD3_WholeLine(l2) ==
    push(push(push(push(push(<<>>,
        verifyField(substring(l2, 0, 9), charAt(l2, 9), "Document Number", 2)),
        verifyField(substring(l2, 13, 19), charAt(l2, 19), "Date of Birth", 2)),
        verifyField(substring(l2, 21, 27), charAt(l2, 27), "Expiration Date", 2)),
        verifyField(substring(l2, 28, 42), charAt(l2, 42), "Personal Number", 2)),
        verifyField(substring(l2, 0, 43), charAt(l2, 43), "Composite (Final)", 2))

\* the five checks of parseTD3 on line 2, in the order they are pushed
errorsTD3(l2) ==
    LET docNum == substring(l2, 0, 9)
        dob == substring(l2, 13, 19)
        expiry == substring(l2, 21, 27)
        personalNum_raw == substring(l2, 28, 42)
        compositeString == substring(l2, 0, 10) \o substring(l2, 13, 20) \o substring(l2, 21, 43)
        e1 == push(<<>>, verifyField(docNum, charAt(l2, 9), "Document Number", 2))
        e2 == push(e1, verifyField(dob, charAt(l2, 19), "Date of Birth", 2))
        e3 == push(e2, verifyField(expiry, charAt(l2, 27), "Expiration Date", 2))
        e4 == push(e3, verifyField(personalNum_raw, charAt(l2, 42), "Personal Number", 2))
    IN  push(e4, verifyField(compositeString, charAt(l2, 43), "Composite (Final)", 2))

parseTD3(lines) ==
    LET l1 == lines[1]
        l2 == lines[2]
        nameParts == split(substring(l1, 5, 44))
        docNum == substring(l2, 0, 9)
        errors == errorsTD3(l2)
    IN  [document_type |-> "PASSPORT",
         document_number |-> stripFillers(docNum),
         series |-> stripFillers(substring(docNum, 0, 2)),
         nationality |-> stripFillers(substring(l2, 10, 13)),
         birth_date |-> formatYMD_TD3(substring(l2, 13, 19)),
         sex |-> charAt(l2, 20),
         expiry_date |-> formatYMD_TD3(substring(l2, 21, 27)),
         personal_number |-> stripFillers(substring(l2, 28, 42)),
         names |-> [surname |-> surnameOf(nameParts), given_names |-> givenNamesOf(nameParts)],
         verification_status |-> statusOf(errors),
         errors |-> errors,
         raw_lines |-> lines,
         cleaned_lines |-> lines]

\* mutant: the composite check covers columns 1-15 of line 1 and 1-29 of line 2
errorsTD1_WholeLines(l1, l2) ==
    push(push(push(push(<<>>,
        verifyField(substring(l1, 5, 14), charAt(l1, 14), "Document Number", 1)),
        verifyField(substring(l2, 0, 6), charAt(l2, 6), "Date of Birth", 2)),
        verifyField(substring(l2, 8, 14), charAt(l2, 14), "Expiration Date", 2)),
        verifyField(substring(l1, 0, 15) \o substring(l2, 0, 29), charAt(l2, 29),
                    "Composite (Final)", 2))

\* mutant: the birth date is not checked on its own
errorsTD1_SkipBirth(l1, l2) ==
    push(push(push(<<>>,
        verifyField(substring(l1, 5, 14), charAt(l1, 14), "Document Number", 1)),
        verifyField(substring(l2, 8, 14), charAt(l2, 14), "Expiration Date", 2)),
        verifyField(substring(l1, 5, 30) \o substring(l2, 0, 7)
                        \o substring(l2, 8, 15) \o substring(l2, 18, 29),
                    charAt(l2, 29), "Composite (Final)", 2))

\* the four checks of parseTD1, in the order they are pushed
errorsTD1(l1, l2) ==
    LET docNum == substring(l1, 5, 14)
        dob == substring(l2, 0, 6)
        expiry == substring(l2, 8, 14)
        compositeString == substring(l1, 5, 30) \o substring(l2, 0, 7)
                               \o substring(l2, 8, 15) \o substring(l2, 18, 29)
        e1 == push(<<>>, verifyField(docNum, charAt(l1, 14), "Document Number", 1))
        e2 == push(e1, verifyField(dob, charAt(l2, 6), "Date of Birth", 2))
        e3 == push(e2, verifyField(expiry, charAt(l2, 14), "Expiration Date", 2))
    IN  push(e3, verifyField(compositeString, charAt(l2, 29), "Composite (Final)", 2))

parseTD1(lines) ==
    LET l1 == lines[1]
        l2 == lines[2]
        l3 == lines[3]
        docNum == substring(l1, 5, 14)
        nameParts == split(stripTrailingFillers(l3))
        errors == errorsTD1(l1, l2)
    IN  [document_type |-> "ID_CARD",
         document_number |-> stripFillers(docNum),
         series |-> stripFillers(substring(docNum, 0, 2)),
         nationality |-> stripFillers(substring(l2, 15, 18)),
         birth_date |-> formatYMD_TD1(substring(l2, 0, 6)),
         sex |-> charAt(l2, 7),
         expiry_date |-> formatYMD_TD1(substring(l2, 8, 14)),
         personal_number |-> stripFillers(substring(l1, 15, 30)),
         names |-> [surname |-> surnameOf(nameParts), given_names |-> givenNamesOf(nameParts)],
         verification_status |-> statusOf(errors),
         errors |-> errors,
         raw_lines |-> lines,
         cleaned_lines |-> lines]

(***************************************************************************)
(* extractMrzFromText.                                                     *)
(***************************************************************************)
\* the position (1-based) of the first line break of s, 0 when none
RECURSIVE findBreak(_, _)
findBreak(s, pos) ==
    IF pos > Len(s) THEN 0
    ELSE IF s[pos] = "\n" THEN pos
    ELSE findBreak(s, pos + 1)

\* text.split('\n')
RECURSIVE splitLinesFrom(_, _)
splitLinesFrom(s, start) ==
    IF findBreak(s, start) = 0 THEN <<SubSeq(s, start, Len(s))>>
    ELSE <<SubSeq(s, start, findBreak(s, start) - 1)>> \o splitLinesFrom(s, findBreak(s, start) + 1)
splitLines(s) == splitLinesFrom(s, 1)

\* lines.join('\n')
RECURSIVE join(_)
join(lines) ==
    IF lines = <<>> THEN <<>>
    ELSE IF Len(lines) = 1 THEN lines[1]
    ELSE lines[1] \o <<"\n">> \o join(Tail(lines))

\* (cleanLine.match(/</g) || []).length
chevronCount(s) == Cardinality({i \in 1..Len(s) : s[i] = "<"})

\* mutant: only the chevron count lets a line through
looksLikeMrz_ChevronsOnly(line) ==
    /\ Len(stripSpaces(line)) >= 20
    /\ Len(stripSpaces(line)) <= 100
    /\ chevronCount(stripSpaces(line)) >= 2

\* the filter predicate of extractMrzFromText on one trimmed line
looksLikeMrz(line) ==
    LET cleanLine == stripSpaces(line)
        hasMrzChars == \E i \in 1..Len(cleanLine) :
                           IsUpper(cleanLine[i]) \/ IsDigit(cleanLine[i]) \/ cleanLine[i] = "<"
        isValidLength == Len(cleanLine) >= 20 /\ Len(cleanLine) <= 100
    IN  /\ hasMrzChars
        /\ isValidLength
        /\ \/ chevronCount(cleanLine) >= 2
           \/ Len(cleanLine) = 30
           \/ Len(cleanLine) = 36
           \/ Len(cleanLine) = 44

\* mutant: the kept lines come out newest first
RECURSIVE filterMap_NewestFirst(_)
filterMap_NewestFirst(lines) ==
    IF lines = <<>> THEN <<>>
    ELSE IF looksLikeMrz(Head(lines))
    THEN filterMap_NewestFirst(Tail(lines)) \o <<toUpperCase(stripSpaces(Head(lines)))>>
    ELSE filterMap_NewestFirst(Tail(lines))

\* lines.filter(...).map(l => l.replace(/\s/g, '').toUpperCase())
RECURSIVE filterMap(_)
filterMap(lines) ==
    IF lines = <<>> THEN <<>>
    ELSE IF looksLikeMrz(Head(lines))
    THEN <<toUpperCase(stripSpaces(Head(lines)))>> \o filterMap(Tail(lines))
    ELSE filterMap(Tail(lines))

extractMrzFromText(t) ==
    LET lines == splitLines(t)
    IN  filterMap([i \in 1..Len(lines) |-> trim(lines[i])])

(***************************************************************************)
(* The format resolver of processMrz.                                      *)
(***************************************************************************)
\* the decoder tryParseCustom hands the lines to ("none": it returns null)
decoderFor(lines) ==
    IF Len(lines) = 2 /\ Len(lines[1]) = 44 /\ Len(lines[2]) = 44 THEN "parseTD3"
    ELSE IF Len(lines) = 3 /\ Len(lines[1]) = 30 /\ Len(lines[2]) = 30 /\ Len(lines[3]) = 30
    THEN "parseTD1"
    ELSE "none"

tryParseCustom(lines) ==
    IF decoderFor(lines) = "parseTD3" THEN parseTD3(lines)
    ELSE IF decoderFor(lines) = "parseTD1" THEN parseTD1(lines)
    ELSE Null

\* mutant: no window is cut from a longer line
getCandidates_ExactOnly(line, targetLen) == IF Len(line) = targetLen THEN <<line>> ELSE <<>>

\* mutant: a longer line is handed over whole
getCandidates_WholeLine(line, targetLen) == IF Len(line) >= targetLen THEN <<line>> ELSE <<>>

\* mutant: a line of the target length is pushed by both branches
getCandidates_Twice(line, targetLen) ==
    IF Len(line) = targetLen THEN <<line, line>>
    ELSE IF Len(line) > targetLen
    THEN [i \in 1..(Len(line) - targetLen + 1) |-> SubSeq(line, i, i + targetLen - 1)]
    ELSE <<>>

\* getCandidates: the line itself when it has the target length, every window of
\* the target length when it is longer, nothing when it is shorter
getCandidates(line, targetLen) ==
    IF Len(line) = targetLen THEN <<line>>
    ELSE IF Len(line) > targetLen
    THEN [i \in 1..(Len(line) - targetLen + 1) |-> substring(line, i - 1, i - 1 + targetLen)]
    ELSE <<>>

\* mrzLines.slice(-n)
lastLines(lines, n) == SubSeq(lines, Max(1, Len(lines) - n + 1), Len(lines))

\* mutant: no record counts as valid, so no loop is left early
isValid_Never(res) == FALSE

isValid(res) == res # Null /\ res.verification_status = "VALID"

\* the candidate lists of the TD-3 attempt
l1Candidates == getCandidates(lastLines(mrzLines, 2)[1], 44)
l2Candidates == getCandidates(lastLines(mrzLines, 2)[2], 44)
\* the candidate lists of the TD-1 attempt
l1C == getCandidates(lastLines(mrzLines, 3)[1], 30)
l2C == getCandidates(lastLines(mrzLines, 3)[2], 30)
l3C == getCandidates(lastLines(mrzLines, 3)[3], 30)

\* mutant: the TD-1 attempt does not look at the TD-3 outcome
td1Wanted_Always(res) == Len(mrzLines) >= 3

\* the guard of the TD-1 attempt
td1Wanted(res) ==
    /\ IF res = Null THEN TRUE ELSE res.verification_status = "INVALID"
    /\ Len(mrzLines) >= 3

\* the loops of the TD-3 attempt have a pair to try
td3Pairs == Len(l1Candidates) > 0 /\ Len(l2Candidates) > 0
\* the TD-1 attempt is made and its loops have a triple to try
td1Triples == td1Wanted(result) /\ Len(l1C) > 0 /\ Len(l2C) > 0 /\ Len(l3C) > 0

\* the messages processMrz stores in error.value
ErrNoMrz == [message |-> "Could not detect MRZ in the document. Please ensure the MRZ area is clearly visible and crisp."]
ErrNoFit == [message |-> "MRZ detected but parsing failed. Could not fit to TD-3 (44) or TD-1 (30) standards."]

\* the value processMrz stores in parsedResult
toParsedResult(res) ==
    [documentType |-> IF res.document_type = "PASSPORT" THEN "Passport (TD-3)" ELSE "ID Card (TD-1)",
     documentNumber |-> res.document_number,
     firstName |-> res.names.given_names,
     lastName |-> res.names.surname,
     nationality |-> res.nationality,
     birthDate |-> res.birth_date,
     sex |-> res.sex,
     expirationDate |-> res.expiry_date,
     issuingCountry |-> res.nationality,
     valid |-> res.verification_status = "VALID",
     details |-> [i \in 1..Len(res.errors) |-> [label |-> "Error", value |-> res.errors[i]]],
     personal_number |-> res.personal_number,
     unifiedJson |-> res]


(***************************************************************************)
(* The documents the scans are run on.                                      *)
(***************************************************************************)
\* TD3 line 1 as the OCR reads it, 40 characters: the last 4 fillers are lost
LineP1 == <<"P","<","K","G","Z","S","U","R","N","A","M","E","<","<","N","A","M","E">> \o Rep("<", 22)
\* the same line read one filler too long, 45 characters
LineP1Long == <<"P","<","K","G","Z","S","U","R","N","A","M","E","<","<","N","A","M","E">> \o Rep("<", 27)
\* TD3 line 2 of the source's sample, ending 06, and with the last digit read as 7
LineS2 == <<"A","1","2","3","4","5","6","7","<","8","K","G","Z","9","8","0","1","0","1","5","M","2","8","0","1","0","1","5">> \o Rep("<", 14) \o <<"0","6">>
LineS2Bad == <<"A","1","2","3","4","5","6","7","<","8","K","G","Z","9","8","0","1","0","1","5","M","2","8","0","1","0","1","5">> \o Rep("<", 14) \o <<"0","7">>
\* TD3 line 2 whose five check digits verify, with an empty and with a used
\* personal number
LineV2 == <<"A","1","2","3","4","5","6","7","<","6","K","G","Z","9","8","0","1","0","1","5","M","2","8","0","1","0","1","6">> \o Rep("<", 14) \o <<"0","6">>
LineV2Pers == <<"A","B","0","0","0","0","0","0","7","0","K","G","Z","0","5","0","1","0","1","3","F","3","0","0","6","3","0","2","2","0","5","0","1","1","9","9","8","0","0","1","2","3","5","6">>
\* the verifying line 2 behind one character of noise, 45 characters
LineV2Noise == <<"7">> \o LineV2
\* a TD1 triple whose four check digits verify
LineT1 == <<"I","<","K","G","Z","I","D","1","2","3","4","5","6","7","3">> \o Rep("<", 15)
LineT2 == <<"9","8","0","1","0","1","5","M","2","8","0","1","0","1","6","K","G","Z">> \o Rep("<", 11) \o <<"2">>
LineT3 == <<"S","U","R","N","A","M","E","<","<","N","A","M","E">> \o Rep("<", 17)
\* its line 2 with one digit of the birth date misread
LineT2Bad == <<"9","7","0","1","0","1","5","M","2","8","0","1","0","1","6","K","G","Z">> \o Rep("<", 11) \o <<"2">>
\* its line 3 behind one character of noise, 31 characters
LineT3Noise == <<"X">> \o LineT3
\* lines 2 and 3 of the ID card read 14 fillers too long, 44 characters
LineT2Wide == LineT2 \o Rep("<", 14)
LineT3Wide == LineT3 \o Rep("<", 14)
\* an MRZ-shaped line of 25 characters, too short for either layout
LineShort == <<"K","G","Z","<","<","0","1","2","3","4","5","6","7","8","9","<","<","A","B","C","D","E","F","G","H">>
\* a printed caption, which the extractor drops
LineCaption == <<"K","y","r","g","y","z"," ","R","e","p","u","b","l","i","c">>

\* all sequences over the set S of length at most n
RECURSIVE SeqsUpTo(_, _)
SeqsUpTo(S, n) ==
    IF n = 0 THEN {<<>>}
    ELSE LET shorter == SeqsUpTo(S, n - 1)
         IN  shorter \cup {Append(q, x) : q \in {r \in shorter : Len(r) = n - 1}, x \in S}

\* at most this many lines printed above the machine-readable zone are read too
MaxLead == 1

Pool44 == {LineP1, LineP1Long, LineS2, LineS2Bad, LineV2, LineV2Noise}
Pool30 == {LineT1, LineT2, LineT3, LineT2Bad, LineT3Noise}
PoolOther == {LineShort, LineCaption}
PoolLead == {LineCaption, LineShort, LineT1}
Pool == Pool44 \cup Pool30 \cup PoolOther

\* the lines of the zone itself: nothing, one line, any two lines, or three lines
\* of the narrow layout
Bodies ==
    {<<>>} \cup {<<a>> : a \in Pool} \cup {<<a, b>> : a \in Pool, b \in Pool}
        \cup {<<a, b, c>> : a \in Pool30, b \in Pool30, c \in Pool30}
        \cup {<<LineT2Wide, LineT3Wide>>}

\* the texts the OCR engine may return
Texts == {join(lead \o body) : lead \in SeqsUpTo(PoolLead, MaxLead), body \in Bodies}

\* const supportedFormats
supportedFormats == {"image/jpeg", "image/png", "image/webp", "application/pdf"}

\* The files of the study: a document of which nothing is known, the picture
\* of a passport, the picture of an ID card, and a file that is no picture.
\* (Pictures only: the PDF branch of handleFileSelect is not part of the model.)
Document == [name |-> "document.jpg", type |-> "image/jpeg"]
PassportScan == [name |-> "passport.png", type |-> "image/png"]
CardScan == [name |-> "idcard.png", type |-> "image/png"]
Letter == [name |-> "letter.txt", type |-> "text/plain"]

\* the files the user selects on the page
Selectable == {PassportScan, CardScan, Letter}

\* the texts worker.recognize may resolve with for a file: what is printed on
\* the two pictures, and any text for the unknown document
recognize(f) ==
    IF f = PassportScan THEN {join(<<LineCaption, LineP1, LineV2>>)}
    ELSE IF f = CardScan THEN {join(<<LineT1, LineT2, LineT3>>)}
    ELSE Texts

(***************************************************************************)
(* processMrz as a state machine.                                          *)
(***************************************************************************)
\* the click on Scan (the button is disabled while isProcessing): processMrz up
\* to its awaits on createWorker and setParameters, with the locals of the new
\* call
ProcessMrz ==
    /\ pc \in {"idle", "done"}
    /\ ~isProcessing
    /\ ~(file = Null /\ imagePreview = Null)
    /\ isProcessing' = TRUE
    /\ error' = Null
    /\ parsedResult' = Null
    /\ rawMrzText' = <<>>
    /\ text' = <<>>
    /\ mrzLines' = <<>>
    /\ result' = Null
    /\ c1i' = 0 /\ c2i' = 0 /\ c3i' = 0
    /\ nTD3' = 0 /\ nTD1' = 0
    /\ lastCall' = Null
    /\ input' = Null
    /\ pc' = "init"
    /\ UNCHANGED <<file, imagePreview, loading, arg, ret>>

\* the engine is ready: let input = imagePreview.value || file.value! and the
\* call of worker.recognize
ReadInput ==
    /\ pc = "init"
    /\ input' = IF imagePreview # Null THEN imagePreview ELSE file
    /\ pc' = "ocr"
    /\ UNCHANGED <<text, mrzLines, result, c1i, c2i, c3i, nTD3, nTD1, lastCall,
                   isProcessing, rawMrzText, parsedResult, error, file, imagePreview,
                   loading, arg, ret>>

\* worker.recognize resolves with the text of the scanned input
Recognized ==
    /\ pc = "ocr"
    /\ \E t \in recognize(input) : text' = t
    /\ pc' = "recognized"
    /\ UNCHANGED <<mrzLines, result, c1i, c2i, c3i, nTD3, nTD1, lastCall,
                   isProcessing, rawMrzText, parsedResult, error, arg, ret>>
    /\ UNCHANGED pageVars

\* mutant: one line is taken to be enough
tooFewLines_None(lines) == Len(lines) < 1

\* mrzLines.length < 2
tooFewLines(lines) == Len(lines) < 2

\* mrzLinesRaw.map(l => cleanMrzLine(l))
mapClean(lines) == [i \in 1..Len(lines) |-> cleanMrzLine(lines[i])]

\* the text has been recognized: extract and clean the lines; with fewer than 2
\* the call reports the error and returns
Extract ==
    /\ pc = "recognized"
    /\ \E cleaned \in {mapClean(extractMrzFromText(text))} :
           /\ mrzLines' = cleaned
           /\ IF tooFewLines(cleaned)
              THEN /\ error' = ErrNoMrz
                   /\ rawMrzText' = text
                   /\ isProcessing' = FALSE
                   /\ pc' = "done"
              ELSE /\ pc' = "td3"
                   /\ UNCHANGED <<error, rawMrzText, isProcessing>>
    /\ UNCHANGED <<text, result, c1i, c2i, c3i, nTD3, nTD1, lastCall, parsedResult, arg, ret>>
    /\ UNCHANGED pageVars

\* mutant: the call returns from inside the TD-3 loop
td3Advance_Return(res, newResult) == c1i' = 0 /\ c2i' = 0 /\ pc' = "done"

\* the loop exits that follow an iteration of the TD-3 attempt which decoded
\* res and left newResult in result
td3Advance(res, newResult) ==
    IF ~(isValid(res) \/ c2i + 1 = Len(l2Candidates))
    THEN c2i' = c2i + 1 /\ UNCHANGED <<c1i, pc>>
    ELSE IF ~(isValid(newResult) \/ c1i + 1 = Len(l1Candidates))
    THEN c1i' = c1i + 1 /\ c2i' = 0 /\ UNCHANGED pc
    ELSE c1i' = 0 /\ c2i' = 0 /\ pc' = "td1"

\* tryParseCustom as the loops call it: the call is counted and remembered
noteCall(lines) ==
    /\ lastCall' = [decoder |-> decoderFor(lines), lines |-> lines]
    /\ nTD3' = nTD3 + (IF decoderFor(lines) = "parseTD3" THEN 1 ELSE 0)
    /\ nTD1' = nTD1 + (IF decoderFor(lines) = "parseTD1" THEN 1 ELSE 0)

\* one iteration of the inner loop of the TD-3 attempt, with the loop exits
\* that follow it
TD3Try ==
    /\ pc = "td3"
    /\ td3Pairs
    /\ \E lines \in {<<l1Candidates[c1i + 1], l2Candidates[c2i + 1]>>} :
         \E res \in {tryParseCustom(lines)} :
           \E newResult \in {IF res # Null THEN res ELSE result} :
              /\ result' = newResult
              /\ noteCall(lines)
              /\ td3Advance(res, newResult)
    /\ UNCHANGED <<text, mrzLines, c3i, isProcessing, rawMrzText, parsedResult, error, arg, ret>>
    /\ UNCHANGED pageVars

\* the TD-3 attempt has no pair to try
TD3None ==
    /\ pc = "td3"
    /\ ~td3Pairs
    /\ pc' = "td1"
    /\ UNCHANGED <<text, mrzLines, result, c1i, c2i, c3i, nTD3, nTD1, lastCall,
                   isProcessing, rawMrzText, parsedResult, error, arg, ret>>
    /\ UNCHANGED pageVars

\* the loop exits that follow an iteration of the TD-1 attempt which decoded
\* res and left newResult in result
td1Advance(res, newResult) ==
    IF ~(isValid(res) \/ c3i + 1 = Len(l3C))
    THEN c3i' = c3i + 1 /\ UNCHANGED <<c1i, c2i, pc>>
    ELSE IF ~(isValid(newResult) \/ c2i + 1 = Len(l2C))
    THEN c2i' = c2i + 1 /\ c3i' = 0 /\ UNCHANGED <<c1i, pc>>
    ELSE IF ~(isValid(newResult) \/ c1i + 1 = Len(l1C))
    THEN c1i' = c1i + 1 /\ c2i' = 0 /\ c3i' = 0 /\ UNCHANGED pc
    ELSE c1i' = 0 /\ c2i' = 0 /\ c3i' = 0 /\ pc' = "finish"

\* mutant: the TD-1 loop keeps every record it decodes, as the TD-3 loop does
td1Keep_Overwrite(res, cur) == IF res # Null THEN res ELSE cur

\* result after an iteration of the TD-1 loop that decoded res: a VALID record
\* is taken, an INVALID one only when there is no record yet
td1Keep(res, cur) == IF isValid(res) \/ (res # Null /\ cur = Null) THEN res ELSE cur

\* one iteration of the innermost loop of the TD-1 attempt, with the loop exits
\* that follow it
TD1Try ==
    /\ pc = "td1"
    /\ td1Triples
    /\ \E lines \in {<<l1C[c1i + 1], l2C[c2i + 1], l3C[c3i + 1]>>} :
         \E res \in {tryParseCustom(lines)} :
           \E newResult \in {td1Keep(res, result)} :
              /\ result' = newResult
              /\ noteCall(lines)
              /\ td1Advance(res, newResult)
    /\ UNCHANGED <<text, mrzLines, isProcessing, rawMrzText, parsedResult, error, arg, ret>>
    /\ UNCHANGED pageVars

\* the TD-1 attempt is not made, or has no triple to try
TD1None ==
    /\ pc = "td1"
    /\ ~td1Triples
    /\ pc' = "finish"
    /\ UNCHANGED <<text, mrzLines, result, c1i, c2i, c3i, nTD3, nTD1, lastCall,
                   isProcessing, rawMrzText, parsedResult, error, arg, ret>>
    /\ UNCHANGED pageVars

\* the end of processMrz: the diagnostic text, the record or the error, and the
\* finally block
Finish ==
    /\ pc = "finish"
    /\ rawMrzText' = join(mrzLines)
    /\ IF result # Null
       THEN parsedResult' = toParsedResult(result) /\ UNCHANGED error
       ELSE error' = ErrNoFit /\ UNCHANGED parsedResult
    /\ isProcessing' = FALSE
    /\ pc' = "done"
    /\ UNCHANGED <<text, mrzLines, result, c1i, c2i, c3i, nTD3, nTD1, lastCall, arg, ret>>
    /\ UNCHANGED pageVars

\* the page before any scan
ScanInit ==
    /\ text = <<>>
    /\ mrzLines = <<>>
    /\ result = Null
    /\ c1i = 0 /\ c2i = 0 /\ c3i = 0
    /\ nTD3 = 0 /\ nTD1 = 0
    /\ lastCall = Null
    /\ isProcessing = FALSE
    /\ rawMrzText = <<>>
    /\ parsedResult = Null
    /\ error = Null

\* no file has been selected
PageInit ==
    /\ file = Null
    /\ imagePreview = Null
    /\ loading = {}
    /\ input = Null

PipeInit == ScanInit /\ PageInit

\* the page on which the document has been selected and its preview loaded
Init ==
    /\ ScanInit
    /\ file = Document
    /\ imagePreview = Document
    /\ loading = {}
    /\ input = Null
    /\ pc = "idle"
    /\ arg = <<>>
    /\ ret = <<>>

Next ==
    \/ ProcessMrz
    \/ ReadInput
    \/ Recognized
    \/ Extract
    \/ TD3Try
    \/ TD3None
    \/ TD1Try
    \/ TD1None
    \/ Finish

Spec == Init /\ [][Next]_vars

\* processMrz after the await on worker.recognize is synchronous code: once the
\* text is there the call runs on to its return.  The steps of that code:
Resolve == Extract \/ TD3Try \/ TD3None \/ TD1Try \/ TD1None \/ Finish

\* the call is inside that synchronous code.  In each of these four positions
\* exactly one action of Resolve is enabled and it changes pc or a loop index,
\* so resolving is ENABLED <<Resolve>>_vars
resolving == pc \in {"recognized", "td3", "td1", "finish"}

\* The pipeline under weak fairness of the synchronous code, WF_vars(Resolve),
\* written out as []<>(~ENABLED <<Resolve>>_vars) \/ []<><<Resolve>>_vars with the
\* enabling condition as the predicate above.
SpecResolve == Init /\ [][Next]_vars /\ ([]<>(~resolving) \/ []<><<Resolve>>_vars)

(***************************************************************************)
(* The page: file selection, preview and reset around a scan.              *)
(***************************************************************************)
\* A handler of the page runs only while no call of processMrz is inside its
\* synchronous code: before a scan, after it, or while the call is suspended
\* at an await on the OCR engine.
atAwait == pc \in {"idle", "init", "ocr", "done"}

\* the message handleFileSelect stores in error.value
ErrUnsupported == [message |-> "Unsupported file format. Please use JPEG, PNG, WebP, or PDF."]

\* reset(), but for file.value, which the caller sets next
reset ==
    /\ imagePreview' = Null
    /\ parsedResult' = Null
    /\ rawMrzText' = <<>>
    /\ error' = Null

\* the change (or drop) event of the file input, which is never disabled: an
\* unsupported file leaves the message; a picture resets the page, becomes the
\* selected file and starts a FileReader
HandleFileSelect ==
    /\ atAwait
    /\ \E selectedFile \in Selectable :
           IF selectedFile.type \notin supportedFormats
           THEN /\ error' = ErrUnsupported
                /\ UNCHANGED <<file, imagePreview, loading, parsedResult, rawMrzText>>
           ELSE /\ reset
                /\ file' = selectedFile
                /\ loading' = loading \cup {selectedFile}
    /\ UNCHANGED <<pc, text, mrzLines, result, c1i, c2i, c3i, nTD3, nTD1, lastCall,
                   isProcessing, input, arg, ret>>

\* reader.onload of a FileReader started earlier (one pending load per file)
PreviewLoaded ==
    /\ atAwait
    /\ \E f \in loading :
           /\ imagePreview' = f
           /\ loading' = loading \ {f}
    /\ UNCHANGED <<pc, text, mrzLines, result, c1i, c2i, c3i, nTD3, nTD1, lastCall,
                   isProcessing, rawMrzText, parsedResult, error, file, input, arg, ret>>

\* the click on Reset (the button is disabled while isProcessing)
Reset ==
    /\ atAwait
    /\ ~isProcessing
    /\ reset
    /\ file' = Null
    /\ UNCHANGED <<pc, text, mrzLines, result, c1i, c2i, c3i, nTD3, nTD1, lastCall,
                   isProcessing, loading, input, arg, ret>>

InitPage ==
    /\ PipeInit
    /\ pc = "idle"
    /\ arg = <<>>
    /\ ret = <<>>

NextPage ==
    \/ HandleFileSelect
    \/ PreviewLoaded
    \/ Reset
    \/ ProcessMrz
    \/ ReadInput
    \/ Recognized
    \/ Extract
    \/ TD3Try
    \/ TD3None
    \/ TD1Try
    \/ TD1None
    \/ Finish

SpecPage == InitPage /\ [][NextPage]_vars

(***************************************************************************)
(* The functions of the scanner on their own: each specification draws the *)
(* argument in its initial state and applies the function.                 *)
(***************************************************************************)
\* ---- formatYMD ----
MonthDays == {<<"0","1","0","1">>, <<"0","6","3","0">>, <<"1","2","3","1">>}
\* every two-digit year with some months and days, and some fields that are no dates
DateInputs ==
    {<<Digits[a], Digits[b]>> \o md : a \in 1..10, b \in 1..10, md \in MonthDays}
        \cup {Rep("<", 6), <<"9","8","0","1","<","<">>, <<"9","8","0","1","0">>,
              <<"O","5","0","1","0","1">>, <<"9","B","0","1","0","1">>}

FormatYMD_TD3 ==
    /\ pc = "call"
    /\ ret' = formatYMD_TD3(arg)
    /\ pc' = "returnTD3"
    /\ UNCHANGED arg
    /\ UNCHANGED pipeVars
FormatYMD_TD1 ==
    /\ pc = "call"
    /\ ret' = formatYMD_TD1(arg)
    /\ pc' = "returnTD1"
    /\ UNCHANGED arg
    /\ UNCHANGED pipeVars

InitFormatYMD == PipeInit /\ pc = "call" /\ arg \in DateInputs /\ ret = <<>>
NextFormatYMD == FormatYMD_TD3 \/ FormatYMD_TD1
SpecFormatYMD == InitFormatYMD /\ [][NextFormatYMD]_vars

\* ---- cleanMrzLine ----
\* the longest run of characters drawn after the fillers of a line
MaxTail == 2

CleanPrefixes ==
    {<<"P","<","K","G","Z">>, <<"P","C","K","G","Z">>, <<"P","<","C","A","N">>,
     <<"I","<","K","G","Z">>, <<"I","S","L","U","X">>, <<"A","1","2","3","4">>}
CleanNames ==
    {<<"S","U","R","N","A","M","E","<","<","N","A","M","E">>,
     <<"L","E","E","<","C","H","A","R","L","E","S","<","L","O","U">>,
     <<"I","V","A","N","O","V","<","L","I","V","A","N","<","<","C","K">>}
CleanFills == {0, 5, 11, 12, 20, 26}
CleanTails == SeqsUpTo({"K", "C", "<", "A"}, MaxTail)
\* candidate lines: a document prefix, a name zone, fillers and what the OCR
\* reads at the end of the line
CleanInputs ==
    {p \o n \o Rep("<", f) \o t :
        p \in CleanPrefixes, n \in CleanNames, f \in CleanFills, t \in CleanTails}

\* the line is cleaned
Clean ==
    /\ pc = "call"
    /\ ret' = cleanMrzLine(arg)
    /\ pc' = "cleaned"
    /\ UNCHANGED arg
    /\ UNCHANGED pipeVars
\* the line is taken through rules 1 and 2 only
FixSeparators ==
    /\ pc = "call"
    /\ ret' = fixSeparators(fixStart(toUpperCase(arg)))
    /\ pc' = "separated"
    /\ UNCHANGED arg
    /\ UNCHANGED pipeVars
\* the cleaned line is cleaned again: arg keeps the line handed in
Reclean ==
    /\ pc = "cleaned"
    /\ arg' = ret
    /\ ret' = cleanMrzLine(ret)
    /\ pc' = "recleaned"
    /\ UNCHANGED pipeVars

InitClean == PipeInit /\ pc = "call" /\ arg \in CleanInputs /\ ret = <<>>
NextClean == Clean \/ Reclean \/ FixSeparators
SpecClean == InitClean /\ [][NextClean]_vars

\* ---- calculateCheckDigit ----
\* the longest field value drawn
MaxLen == 3

CheckAlphabet == {"0", "1", "9", "A", "K", "Z", "<"}
CheckInputs == SeqsUpTo(CheckAlphabet, MaxLen)

CalculateCheckDigit ==
    /\ pc = "call"
    /\ ret' = calculateCheckDigit(arg)
    /\ pc' = "calculated"
    /\ UNCHANGED arg
    /\ UNCHANGED pipeVars

InitCheckDigit == PipeInit /\ pc = "call" /\ arg \in CheckInputs /\ ret = <<>>
NextCheckDigit == CalculateCheckDigit
SpecCheckDigit == InitCheckDigit /\ [][NextCheckDigit]_vars

\* ---- parseTD3 and parseTD1 ----
\* at most this many characters of a verifying document are misread
MaxSubst == 2

\* s with at most k of the columns cols (0-based) replaced by characters of chars
RECURSIVE Variants(_, _, _, _)
Variants(s, cols, chars, k) ==
    IF k = 0 THEN {s}
    ELSE {[v EXCEPT ![c + 1] = ch] : v \in Variants(s, cols, chars, k - 1),
                                     c \in cols, ch \in chars}
             \cup Variants(s, cols, chars, k - 1)

Misreads == {"0", "7", "<", "O"}
\* line 2 of a passport: the check columns and the first column of each field
TD3Cols == {9, 19, 27, 42, 43, 0, 13, 21, 28}
TD3Inputs ==
    {<<cleanMrzLine(LineP1), l2>> :
        l2 \in Variants(LineV2Pers, TD3Cols, Misreads, MaxSubst)
                 \cup Variants(LineV2, TD3Cols, Misreads, MaxSubst)}
\* lines 1 and 2 of an ID card, side by side: the check columns and the first
\* column of each field
TD1Cols == {14, 36, 44, 59, 5, 15, 30, 38, 48}
TD1Inputs ==
    {<<substring(l, 0, 30), substring(l, 30, 60), LineT3>> :
        l \in Variants(LineT1 \o LineT2, TD1Cols, Misreads, MaxSubst)}

DecodeTD3 ==
    /\ pc = "call"
    /\ decoderFor(arg) = "parseTD3"
    /\ ret' = parseTD3(arg)
    /\ pc' = "decoded"
    /\ UNCHANGED arg
    /\ UNCHANGED pipeVars
DecodeTD1 ==
    /\ pc = "call"
    /\ decoderFor(arg) = "parseTD1"
    /\ ret' = parseTD1(arg)
    /\ pc' = "decoded"
    /\ UNCHANGED arg
    /\ UNCHANGED pipeVars

\* name zones: one and two separators, single fillers inside a name, no
\* separator, a separator of three fillers
NameZones ==
    {<<"S","U","R","N","A","M","E","<","<","N","A","M","E">>,
     <<"S","U","R","N","A","M","E","<","<","N","A","M","E","<","<","E","X","T","R","A">>,
     <<"L","E","E","<","<","A","N","N","A","<","M","A","R","I","A">>,
     <<"D","E","<","L","A","<","C","R","U","Z","<","<","J","U","A","N","<","<","<","P","A","B","L","O">>,
     <<"S","U","R","N","A","M","E">>}
\* the documents of a name zone: a passport line 1 and an ID card line 3
NameInputs ==
    {<<(<<"P","<","K","G","Z">> \o z) \o Rep("<", 39 - Len(z)), LineV2>> : z \in NameZones}
        \cup {<<LineT1, LineT2, z \o Rep("<", 30 - Len(z))>> : z \in NameZones}

InitDecode ==
    PipeInit /\ pc = "call" /\ arg \in TD3Inputs \cup TD1Inputs \cup NameInputs /\ ret = <<>>
NextDecode == DecodeTD3 \/ DecodeTD1
SpecDecode == InitDecode /\ [][NextDecode]_vars

\* ---- extractMrzFromText and the cleaning of its lines ----
\* at most this many physical lines in a recognized text
MaxPhys == 2

\* physical lines around every edge of the filter: lengths 19, 20, 100 and 101
\* with two chevrons; 30, 36 and 44 without a chevron; 31 with one chevron;
\* lower-case letters only; spaces inside and around; a short ID line in lower
\* case; a caption; a blank line
PhysLines ==
    {<<"<","<">> \o Rep("7", 17),
     <<"<","<">> \o Rep("7", 18),
     Rep("Z", 98) \o <<"<","<">>,
     Rep("Z", 99) \o <<"<","<">>,
     Rep("A", 28) \o <<"0","9">>,
     Rep("B", 36),
     Rep("5", 44),
     Rep("A", 30) \o <<"<">>,
     Rep("a", 30),
     Rep("a", 29) \o <<"1">>,
     <<" ","\t">> \o SubSeq(LineT1, 1, 5) \o <<" ">> \o SubSeq(LineT1, 6, 30) \o <<" ","\r">>,
     <<"i","<","k","g","z","<","<">> \o Rep("a", 18),
     LineT1,
     LineCaption,
     <<" "," "," ">>}
PhysTexts == {join(ls) : ls \in SeqsUpTo(PhysLines, MaxPhys)}

ExtractMrzFromText ==
    /\ pc = "call"
    /\ ret' = extractMrzFromText(arg)
    /\ pc' = "extracted"
    /\ UNCHANGED arg
    /\ UNCHANGED pipeVars
\* processMrz cleans the extracted lines: arg keeps the extracted lines
CleanLines ==
    /\ pc = "extracted"
    /\ arg' = ret
    /\ ret' = mapClean(ret)
    /\ pc' = "normalized"
    /\ UNCHANGED pipeVars

InitExtract == PipeInit /\ pc = "call" /\ arg \in PhysTexts /\ ret = <<>>
NextExtract == ExtractMrzFromText \/ CleanLines
SpecExtract == InitExtract /\ [][NextExtract]_vars

(***************************************************************************)
(* The claims.                                                             *)
(***************************************************************************)
\* the field labels of an error list, in order
errorLabels(errors) == [i \in 1..Len(errors) |-> errors[i].type]
\* the value of a decimal digit character
DigitValue(c) == IndexOf(Digits, c) - 1
\* the normalized lines of a text, in extraction order
cleanEach(lines) == [i \in 1..Len(lines) |-> cleanMrzLine(lines[i])]
NormalizedOf(t) == cleanEach(extractMrzFromText(t))
\* a declared check character is a decimal digit equal to the check digit of the field
Verifies(field, c) == IsDigit(c) /\ DigitValue(c) = calculateCheckDigit(field)

\* ---- C1 ----
TextScenario2 == join(<<LineP1, LineS2Bad>>)

\* C1, as stated: scanning the text of scenario 2 (line 2 ending 07) ends with
\* a PASSPORT record that is INVALID and whose error list has exactly one
\* entry, labeled Composite (Final).
C1_OnlyCompositeError ==
    (pc = "done" /\ text = TextScenario2) =>
        /\ parsedResult # Null
        /\ parsedResult.unifiedJson.document_type = "PASSPORT"
        /\ parsedResult.unifiedJson.verification_status = "INVALID"
        /\ errorLabels(parsedResult.unifiedJson.errors) = <<"Composite (Final)">>

\* C1, amended: scanning the text of scenario 2 ends with a PASSPORT record
\* that is INVALID and whose error list has exactly three entries, labeled
\* Document Number, Expiration Date and Composite (Final), in this order: the
\* declared digits 8 and 5 of the sample differ from the computed 6 and 6.
C1_ThreeErrors ==
    (pc = "done" /\ text = TextScenario2) =>
        /\ parsedResult # Null
        /\ parsedResult.unifiedJson.document_type = "PASSPORT"
        /\ parsedResult.unifiedJson.verification_status = "INVALID"
        /\ errorLabels(parsedResult.unifiedJson.errors)
               = <<"Document Number", "Expiration Date", "Composite (Final)">>

C1_Witness == pc = "done" /\ text = TextScenario2 /\ parsedResult # Null /\ nTD3 = 1

\* ---- C2 ----
AllDigits(s) == \A i \in 1..Len(s) : IsDigit(s[i])
\* YYYY-MM-DD with the century of the pivot: 19 when YY > 50, else 20
PivotDate(val) ==
    (IF 10 * DigitValue(val[1]) + DigitValue(val[2]) > 50 THEN <<"1", "9">> ELSE <<"2", "0">>)
        \o <<val[1], val[2], "-", val[3], val[4], "-", val[5], val[6]>>

\* C2: for every 6-character all-digit value, formatYMD of either decoder
\* returns the 10-character YYYY-MM-DD with year 1900+YY when YY > 50 and
\* 2000+YY when YY <= 50.
C2_FormatYMDPivot ==
    (pc \in {"returnTD3", "returnTD1"} /\ Len(arg) = 6 /\ AllDigits(arg)) =>
        (Len(ret) = 10 /\ ret = PivotDate(arg))

\* ---- C3 ----
\* C3: cleaning a cleaned line changes nothing.
C3_CleanIdempotent == pc = "recleaned" => ret = arg

\* ---- C4 ----
\* C4: every record of parseTD3 or parseTD1, the one kept in result, the one
\* shown in parsedResult and the one the latest decoder call produced, has
\* verification_status VALID if and only if its error list is empty.
validIffNoErrors(rec) ==
    /\ rec.verification_status \in {"VALID", "INVALID"}
    /\ rec.verification_status = "VALID" <=> rec.errors = <<>>

C4_ValidIffNoErrors ==
    /\ result # Null => validIffNoErrors(result)
    /\ parsedResult # Null => validIffNoErrors(parsedResult.unifiedJson)
    /\ lastCall # Null => validIffNoErrors(tryParseCustom(lastCall.lines))

C4_Witness ==
    /\ pc = "done"
    /\ parsedResult # Null
    /\ parsedResult.unifiedJson.document_type = "ID_CARD"
    /\ parsedResult.unifiedJson.errors = <<>>
    /\ nTD1 > 0

\* ---- C5 ----
\* the five declared check characters of a TD3 line 2 verify
TD3ChecksVerify(l2) ==
    /\ Verifies(SubSeq(l2, 1, 9), l2[10])
    /\ Verifies(SubSeq(l2, 14, 19), l2[20])
    /\ Verifies(SubSeq(l2, 22, 27), l2[28])
    /\ Verifies(SubSeq(l2, 29, 42), l2[43])
    /\ Verifies(SubSeq(l2, 1, 10) \o SubSeq(l2, 14, 20) \o SubSeq(l2, 22, 43), l2[44])

\* C5: parseTD3 of two 44-character lines returns VALID if and only if the five
\* declared check characters of line 2 are digits equal to the check digits of
\* columns [0,9), [13,19), [21,27), [28,42) and [0,10)+[13,20)+[21,43).
C5_TD3ValidIffChecks ==
    (pc = "decoded" /\ Len(arg) = 2) =>
        (ret.verification_status = "VALID" <=> TD3ChecksVerify(arg[2]))

C5_Witness ==
    /\ pc = "decoded" /\ Len(arg) = 2
    /\ ret.verification_status = "VALID"
    /\ arg[2] # LineV2 /\ arg[2] # LineV2Pers

\* ---- C6 ----
\* the four declared check characters of TD1 lines 1 and 2 verify
TD1ChecksVerify(l1, l2) ==
    /\ Verifies(SubSeq(l1, 6, 14), l1[15])
    /\ Verifies(SubSeq(l2, 1, 6), l2[7])
    /\ Verifies(SubSeq(l2, 9, 14), l2[15])
    /\ Verifies(SubSeq(l1, 6, 30) \o SubSeq(l2, 1, 7) \o SubSeq(l2, 9, 15) \o SubSeq(l2, 19, 29),
                l2[30])

\* C6: parseTD1 of three 30-character lines returns VALID if and only if the
\* four declared check characters are digits equal to the check digits of
\* line-1 [5,14), line-2 [0,6), line-2 [8,14) and
\* line-1 [5,30) + line-2 [0,7) + line-2 [8,15) + line-2 [18,29).
C6_TD1ValidIffChecks ==
    (pc = "decoded" /\ Len(arg) = 3) =>
        (ret.verification_status = "VALID" <=> TD1ChecksVerify(arg[1], arg[2]))

C6_Witness ==
    /\ pc = "decoded" /\ Len(arg) = 3
    /\ ret.verification_status = "VALID"
    /\ <<arg[1], arg[2]>> # <<LineT1, LineT2>>

\* ---- C7 ----
\* the record has an error entry for the field label
hasErrorFor(rec, label) == \E i \in 1..Len(rec.errors) : rec.errors[i].type = label

\* the declared check characters of the decoded lines, each with its label
declaredChecks(lines) ==
    IF Len(lines) = 2
    THEN {<<lines[2][10], "Document Number">>, <<lines[2][20], "Date of Birth">>,
          <<lines[2][28], "Expiration Date">>, <<lines[2][43], "Personal Number">>,
          <<lines[2][44], "Composite (Final)">>}
    ELSE {<<lines[1][15], "Document Number">>, <<lines[2][7], "Date of Birth">>,
          <<lines[2][15], "Expiration Date">>, <<lines[2][30], "Composite (Final)">>}

\* C7: a declared check character that is no decimal digit always gives an
\* error entry for its field, whatever the computed digit, and the record is
\* INVALID.
C7_NonDigitCheckFails ==
    pc = "decoded" =>
        \A d \in declaredChecks(arg) :
            ~IsDigit(d[1]) => (hasErrorFor(ret, d[2]) /\ ret.verification_status = "INVALID")

\* the personal number is all fillers, its computed digit is 0 and its declared
\* check character is the filler
C7_Witness ==
    /\ pc = "decoded" /\ Len(arg) = 2
    /\ \A i \in 29..42 : arg[2][i] = "<"
    /\ arg[2][43] = "<"
    /\ calculateCheckDigit(SubSeq(arg[2], 29, 42)) = 0
    /\ hasErrorFor(ret, "Personal Number")

\* ---- C8 ----
\* the value of a character: a digit is itself, A..Z are 10..35, the filler is 0
ClaimValue(c) ==
    IF c \in DigitSet THEN IndexOf(Digits, c) - 1
    ELSE IF c \in UpperSet THEN IndexOf(Uppers, c) + 9
    ELSE 0
\* the weight of the 0-based position i
ClaimWeight(i) == IF i % 3 = 0 THEN 7 ELSE IF i % 3 = 1 THEN 3 ELSE 1
\* the sum over the first n characters of value * weight
RECURSIVE WeightedSum(_, _)
WeightedSum(s, n) ==
    IF n = 0 THEN 0 ELSE WeightedSum(s, n - 1) + ClaimValue(s[n]) * ClaimWeight(n - 1)

C9_TooFewLinesEndsCall ==
    [][(pc = "recognized" /\ Len(extractMrzFromText(text)) < 2) =>
          /\ pc' = "done"
          /\ error' = ErrNoMrz
          /\ parsedResult' = Null /\ result' = Null
          /\ nTD3' = 0 /\ nTD1' = 0 /\ lastCall' = Null
          /\ isProcessing' = FALSE]_vars

C9_Witness ==
    /\ pc = "done" /\ error = ErrNoMrz
    /\ Len(extractMrzFromText(text)) = 1
    /\ Len(splitLines(text)) > 1

\* ---- C10 ----
\* no window of either layout exists for the normalized lines
NoWindowFits(lines) ==
    /\ \E i \in (Len(lines) - 1)..Len(lines) : Len(lines[i]) < 44
    /\ \/ Len(lines) < 3
       \/ \E i \in (Len(lines) - 2)..Len(lines) : Len(lines[i]) < 30

\* C10: with at least 2 normalized lines the call ends with the no-format-fit
\* error if and only if one of the last 2 lines is shorter than 44 and (there
\* are fewer than 3 lines or one of the last 3 is shorter than 30); the
\* diagnostic text is then the normalized lines in extraction order.
noFitIffNoWindow(lines) ==
    Len(lines) >= 2 =>
        /\ error = ErrNoFit <=> NoWindowFits(lines)
        /\ error = ErrNoFit => (rawMrzText = join(lines) /\ parsedResult = Null)
        /\ error # ErrNoFit => (error = Null /\ parsedResult # Null)

C10_NoFitIffNoWindow == pc = "done" => noFitIffNoWindow(NormalizedOf(text))

C10_Witness ==
    /\ pc = "done" /\ error = ErrNoFit
    /\ Len(mrzLines) >= 3
    /\ \E i \in 1..Len(mrzLines) : Len(mrzLines[i]) >= 30

\* ---- C11 ----
\* the windows of width w of a line, by offset
Windows(line, w) ==
    [i \in 1..(IF Len(line) >= w THEN Len(line) - w + 1 ELSE 0) |-> SubSeq(line, i, i + w - 1)]
\* the 44-wide pairs of the last 2 lines, line-1 offset outermost
PairsInOrder(lines) ==
    LET a == Windows(lines[Len(lines) - 1], 44)
        b == Windows(lines[Len(lines)], 44)
    IN  [k \in 1..(Len(a) * Len(b)) |-> <<a[((k - 1) \div Len(b)) + 1], b[((k - 1) % Len(b)) + 1]>>]
\* the 30-wide triples of the last 3 lines, line-1 offset outermost, line-3
\* offset innermost; none with fewer than 3 lines
TriplesInOrder(lines) ==
    IF Len(lines) < 3 THEN <<>>
    ELSE LET a == Windows(lines[Len(lines) - 2], 30)
             b == Windows(lines[Len(lines) - 1], 30)
             c == Windows(lines[Len(lines)], 30)
         IN  [k \in 1..(Len(a) * Len(b) * Len(c)) |->
                 <<a[((k - 1) \div (Len(b) * Len(c))) + 1],
                   b[(((k - 1) \div Len(c)) % Len(b)) + 1],
                   c[((k - 1) % Len(c)) + 1]>>]
\* the declared check characters of a window combination verify
Validates(combo) ==
    IF Len(combo) = 2 THEN TD3ChecksVerify(combo[2]) ELSE TD1ChecksVerify(combo[1], combo[2])
\* the record decoded from a window combination
Decoded(combo) == IF Len(combo) = 2 THEN parseTD3(combo) ELSE parseTD1(combo)
\* the position of the first combination that validates, 0 when none does
FirstValidIndex(combos) ==
    LET S == {k \in 1..Len(combos) : Validates(combos[k])}
    IN  IF S = {} THEN 0 ELSE CHOOSE k \in S : \A m \in S : k <= m

tieBreak(rec, combos, k) ==
    IF k = 0 THEN rec.verification_status = "INVALID"
    ELSE rec = Decoded(combos[k]) /\ rec.verification_status = "VALID"

\* C11: a call that returns a record returns an INVALID one only when no 44-wide
\* pair of the last 2 lines and no 30-wide triple of the last 3 lines validates;
\* when some combination validates, the record is the one decoded from the first
\* that does, pairs before triples, the last line's offset innermost.
C11_FirstValidWins ==
    (pc = "done" /\ parsedResult # Null) =>
        tieBreak(parsedResult.unifiedJson,
                 PairsInOrder(mrzLines) \o TriplesInOrder(mrzLines),
                 FirstValidIndex(PairsInOrder(mrzLines) \o TriplesInOrder(mrzLines)))

\* two pairs validate and the record is the first one's
C11_Witness ==
    /\ pc = "done" /\ parsedResult # Null
    /\ Cardinality({k \in 1..Len(PairsInOrder(mrzLines)) : Validates(PairsInOrder(mrzLines)[k])}) >= 2
    /\ parsedResult.unifiedJson = Decoded(PairsInOrder(mrzLines)[1])

\* ---- C12 ----
\* C12, as stated: when the last two lines yield a 44-wide pair, no pair and no
\* triple validates, the record returned is the one decoded from the first pair
\* (both offsets 0).
C12_FirstPairIsFallback ==
    (/\ pc = "done"
     /\ Len(mrzLines) >= 2
     /\ Len(PairsInOrder(mrzLines)) > 0
     /\ FirstValidIndex(PairsInOrder(mrzLines) \o TriplesInOrder(mrzLines)) = 0) =>
        /\ parsedResult # Null
        /\ parsedResult.unifiedJson = Decoded(PairsInOrder(mrzLines)[1])

\* ---- C13 ----
\* C13: parseTD1 has been invoked in the running call only if there are at least
\* 3 normalized lines and no 44-wide pair of the last two validates.
C13_TD1OnlyAfterNoValidTD3 ==
    nTD1 > 0 =>
        /\ Len(mrzLines) >= 3
        /\ FirstValidIndex(PairsInOrder(mrzLines)) = 0

\* a TD1 attempt made after the pairs of the TD3 attempt did not validate
C13_Witness == pc = "done" /\ nTD1 > 0 /\ nTD3 > 0

\* ---- C14 ----
exactPair(l1, l2) ==
    /\ getCandidates(l1, 44) = <<l1>>
    /\ getCandidates(l2, 44) = <<l2>>
    /\ nTD3 = 1
    /\ nTD1 = 0
    /\ lastCall = [decoder |-> "parseTD3", lines |-> <<l1, l2>>]
    /\ parsedResult # Null
    /\ parsedResult.unifiedJson = parseTD3(<<l1, l2>>)
    /\ parsedResult.unifiedJson.document_type = "PASSPORT"
    /\ parsedResult.unifiedJson.verification_status = "VALID"

\* C14: when the last two normalized lines are both exactly 44 characters and the
\* five check digits of the last verify, each line has one candidate window, the
\* line itself; one decode attempt is made, on that pair; the TD1 layout is not
\* tried; and the record returned is the VALID PASSPORT record of that pair.
C14_ExactPairDecodedOnce ==
    (/\ pc = "done"
     /\ Len(mrzLines) >= 2
     /\ Len(mrzLines[Len(mrzLines) - 1]) = 44
     /\ Len(mrzLines[Len(mrzLines)]) = 44
     /\ TD3ChecksVerify(mrzLines[Len(mrzLines)])) =>
        exactPair(mrzLines[Len(mrzLines) - 1], mrzLines[Len(mrzLines)])

\* three lines that have 30-wide triples, with the TD1 layout left untried
\* after the exact pair
C14_Witness ==
    /\ pc = "done"
    /\ Len(mrzLines) = 3
    /\ Len(mrzLines[2]) = 44 /\ Len(mrzLines[3]) = 44
    /\ TD3ChecksVerify(mrzLines[3])
    /\ Len(TriplesInOrder(mrzLines)) > 0
    /\ nTD1 = 0

\* ---- C17 ----
widths(lines) == [i \in 1..Len(lines) |-> Len(lines[i])]

\* C17: every window combination handed to tryParseCustom has the declared
\* widths, 2 lines of 44 for parseTD3 and 3 lines of 30 for parseTD1, and every
\* record held carries the lines of its layout: 2 of width 44 for a PASSPORT,
\* 3 of width 30 for an ID_CARD.
C17_DecoderWidths ==
    /\ lastCall # Null =>
          IF lastCall.decoder = "parseTD3" THEN widths(lastCall.lines) = <<44, 44>>
          ELSE lastCall.decoder = "parseTD1" /\ widths(lastCall.lines) = <<30, 30, 30>>
    /\ result # Null =>
          IF result.document_type = "PASSPORT" THEN widths(result.raw_lines) = <<44, 44>>
          ELSE result.document_type = "ID_CARD" /\ widths(result.raw_lines) = <<30, 30, 30>>

\* an ID card decoded from windows cut out of a longer line
C17_Witness ==
    /\ pc = "done" /\ result # Null
    /\ result.document_type = "ID_CARD"
    /\ \E i \in 1..Len(mrzLines) : Len(mrzLines[i]) > 30

\* ---- C18 ----
TextScenario1 == join(<<LineP1, LineS2>>)

\* C18: scanning the text of scenario 1 (line 1 of 40 characters, line 2 ending
\* 06) ends with a PASSPORT record with surname SURNAME, given names NAME and
\* nationality KGZ, which is VALID only if the five declared check characters
\* of line 2 verify.
C18_Scenario1 ==
    (pc = "done" /\ text = TextScenario1) =>
        /\ parsedResult # Null
        /\ parsedResult.unifiedJson.document_type = "PASSPORT"
        /\ parsedResult.unifiedJson.names.surname = <<"S","U","R","N","A","M","E">>
        /\ parsedResult.unifiedJson.names.given_names = <<"N","A","M","E">>
        /\ parsedResult.unifiedJson.nationality = <<"K","G","Z">>
        /\ parsedResult.unifiedJson.verification_status = "VALID" => TD3ChecksVerify(LineS2)

C18_Witness ==
    /\ pc = "done" /\ text = TextScenario1
    /\ Len(LineP1) = 40 /\ Len(mrzLines[1]) = 44
    /\ parsedResult # Null /\ parsedResult.lastName = <<"S","U","R","N","A","M","E">>

\* ---- C15 ----
NotSpace(c) == c \notin {" ", "\t", "\r", "\n"}
\* the trimmed, whitespace-stripped form of a physical line
Stripped(line) == SelectSeq(line, NotSpace)
UpperCased(f) ==
    [i \in 1..Len(f) |-> IF f[i] \in LowerSet THEN Uppers[IndexOf(Lowers, f[i])] ELSE f[i]]
\* conditions (a), (b) and (c) on the stripped form
ShapeOk(f) ==
    /\ \E i \in 1..Len(f) : f[i] \in UpperSet \cup DigitSet \cup {"<"}
    /\ Len(f) >= 20 /\ Len(f) <= 100
    /\ \/ Cardinality({i \in 1..Len(f) : f[i] = "<"}) >= 2
       \/ Len(f) \in {30, 36, 44}
\* the physical lines that meet the conditions, stripped and upper-cased, in order
RECURSIVE KeptInOrder(_)
KeptInOrder(lines) ==
    IF lines = <<>> THEN <<>>
    ELSE (IF ShapeOk(Stripped(Head(lines))) THEN <<UpperCased(Stripped(Head(lines)))>> ELSE <<>>)
             \o KeptInOrder(Tail(lines))

\* C15: extractMrzFromText keeps a physical line if and only if its stripped
\* form has a character of A-Z, 0-9, <, has length 20..100, and has 2 chevrons
\* or length 30, 36 or 44; a kept line comes out stripped and upper-cased.
C15_ExtractorKeeps == pc = "extracted" => ret = KeptInOrder(splitLines(arg))

\* a line of 30 lower-case letters is dropped next to a kept line
C15_Witness ==
    /\ pc = "extracted"
    /\ Len(splitLines(arg)) = 2
    /\ splitLines(arg)[1] = Rep("a", 30)
    /\ Len(ret) = 1

\* ---- C16 ----
StrictlyIncreasing(f) == \A i \in DOMAIN f : \A j \in DOMAIN f : i < j => f[i] < f[j]

\* C16: the extracted lines are a subsequence of the physical lines of the text:
\* the sources of consecutive output lines are distinct physical lines in text
\* order; and the cleaned list has the length and the order of the extracted.
C16_OrderPreserved ==
    /\ pc = "extracted" =>
          \E f \in [1..Len(ret) -> 1..Len(splitLines(arg))] :
              /\ StrictlyIncreasing(f)
              /\ \A i \in 1..Len(ret) : ret[i] = UpperCased(Stripped(splitLines(arg)[f[i]]))
    /\ pc = "normalized" =>
          /\ Len(ret) = Len(arg)
          /\ \A i \in 1..Len(ret) : ret[i] = cleanMrzLine(arg[i])

\* two different lines are kept and the cleaning changes one of them
C16_Witness ==
    /\ pc = "normalized"
    /\ Len(arg) = 2
    /\ arg[1] # arg[2]
    /\ ret[1] = arg[1]
    /\ ret[2] # arg[2]

\* ---- C19 ----
\* the record keeps the fields of the record other, the birth date aside
sameOtherFields(rec, other) ==
    /\ rec.document_number = other.document_number
    /\ rec.nationality = other.nationality
    /\ rec.sex = other.sex
    /\ rec.expiry_date = other.expiry_date
    /\ rec.personal_number = other.personal_number
    /\ rec.names = other.names

\* the triple lines is the triple with line 2 l2 after one digit of the birth
\* date was replaced, and that triple verifies
corruptedFrom(lines, l2, i) ==
    /\ IsDigit(lines[2][i])
    /\ IsDigit(l2[i])
    /\ l2[i] # lines[2][i]
    /\ Verifies(SubSeq(l2, 1, 6), l2[7])
    /\ TD1ChecksVerify(lines[1], l2)

\* C19: when the decoded triple differs from a verifying triple in one digit of
\* the birth date (line 2, columns [0,6)), the ID_CARD record is INVALID, has an
\* error entry labeled Date of Birth, and has the document number, nationality,
\* sex, expiry date, personal number and names of the verifying triple.
C19_BirthDateMisread ==
    (pc = "decoded" /\ Len(arg) = 3) =>
        \A i \in 1..6 : \A d \in DigitSet :
            corruptedFrom(arg, [arg[2] EXCEPT ![i] = d], i) =>
                /\ ret.document_type = "ID_CARD"
                /\ ret.verification_status = "INVALID"
                /\ hasErrorFor(ret, "Date of Birth")
                /\ sameOtherFields(ret, parseTD1(<<arg[1], [arg[2] EXCEPT ![i] = d], arg[3]>>))

C19_Witness ==
    /\ pc = "decoded"
    /\ arg = <<LineT1, [LineT2 EXCEPT ![1] = "7"], LineT3>>
    /\ TD1ChecksVerify(LineT1, LineT2)
    /\ hasErrorFor(ret, "Date of Birth")
    /\ ret.names.surname = <<"S","U","R","N","A","M","E">>

\* ---- C20 ----
\* the name zone of the decoded document
nameZone(lines) == IF Len(lines) = 2 THEN SubSeq(lines[1], 6, 44) ELSE lines[3]
\* the position of the first double filler of the zone, 0 when none
FirstSep(z) ==
    LET S == {i \in 1..(Len(z) - 1) : z[i] = "<" /\ z[i + 1] = "<"}
    IN  IF S = {} THEN 0 ELSE CHOOSE i \in S : \A j \in S : i <= j
\* fillers rendered as spaces, then trimmed
Rendered(s) == trim([i \in 1..Len(s) |-> IF s[i] = "<" THEN " " ELSE s[i]])

splitAtFirstSep(names, z, k) ==
    IF k = 0 THEN names.surname = Rendered(z) /\ names.given_names = <<>>
    ELSE /\ names.surname = Rendered(SubSeq(z, 1, k - 1))
         /\ names.given_names = Rendered(SubSeq(z, k + 2, Len(z)))

\* C20, as stated: the surname is the text of the name zone before its first
\* double filler and the given names are the whole text after it, fillers
\* rendered as spaces and trimmed.
C20_GivenNamesAreTheRest ==
    pc = "decoded" => splitAtFirstSep(ret.names, nameZone(arg), FirstSep(nameZone(arg)))

\* ---- C21 ----
\* position i of s holds a C or L that stands after a filler and before a letter
afterFiller(s, i) ==
    /\ i >= 2 /\ i + 1 <= Len(s)
    /\ s[i] \in {"C", "L"}
    /\ s[i - 1] = "<"
    /\ s[i + 1] \in UpperSet

\* C21, as stated: after rule 2 every C or L that stood after a filler and before
\* a letter has been replaced by a filler, whatever precedes that filler.
C21_EverySeparatorRepaired ==
    pc = "separated" =>
        \A i \in 1..Len(arg) : afterFiller(fixStart(arg), i) => ret[i] = "<"

\* rule 2 against the line rule 1 hands it: a filler stands on the C or L that
\* follows a single filler and is followed by a letter, and nowhere else anew
singleFillerRepair(before, after) ==
    /\ Len(after) = Len(before)
    /\ \A i \in 1..Len(before) :
          after[i] = IF afterFiller(before, i) /\ (i = 2 \/ before[i - 2] # "<")
                     THEN "<" ELSE before[i]

\* C21, amended: after rule 2 a C or L that stood after a filler and before a
\* letter has been replaced by a filler if and only if that filler stood at the
\* start of the line or after a character other than a filler; a C or L after
\* a double filler is kept, and no other character is changed.
C21_SingleFillerRepaired == pc = "separated" => singleFillerRepair(fixStart(arg), ret)

\* one C or L is replaced and one, after a double filler, is kept
C21_Witness ==
    /\ pc = "separated"
    /\ \E i \in 1..Len(arg) : afterFiller(fixStart(arg), i) /\ ret[i] = "<"
    /\ \E i \in 1..Len(arg) : afterFiller(fixStart(arg), i) /\ ret[i] # "<"

\* ---- C22 ----
\* the line after rules 1 to 3
afterRule3(x) == fixTail(fixSeparators(fixStart(toUpperCase(x))))
beginsWith(s, a, b) == Len(s) >= 2 /\ s[1] = a /\ s[2] = b
\* the length the claim gives the normalized line
claimedLength(x, mid) ==
    IF beginsWith(mid, "P", "<") /\ Len(x) \in 31..43 THEN 44
    ELSE IF beginsWith(mid, "I", "<") /\ Len(x) \in 21..29 THEN 30
    ELSE Len(x)

lengthRepair(x, mid, out) ==
    /\ Len(out) = claimedLength(x, mid)
    /\ SubSeq(out, 1, Len(x)) = mid
    /\ \A i \in (Len(x) + 1)..Len(out) : out[i] = "<"

\* C22: the normalized line has length 44 when the line after rules 1-3 starts
\* with P< and the input has 31..43 characters, 30 when it starts with I< and
\* the input has 21..29, and the input's length otherwise; it is the line after
\* rules 1-3 with fillers appended.
C22_LengthRepair == pc = "cleaned" => lengthRepair(arg, afterRule3(arg), ret)

C22_Witness ==
    /\ pc = "cleaned"
    /\ Len(arg) = 29 /\ Len(ret) = 30
    /\ arg[1] = "I" /\ arg[2] # "<"

\* ---- C23 ----
\* the length of the maximal run of L, C, K and fillers that ends the line
TrailingRun(s) ==
    LET S == {n \in 0..Len(s) : \A i \in (Len(s) - n + 1)..Len(s) : s[i] \in {"L", "C", "K", "<"}}
    IN  CHOOSE n \in S : \A m \in S : m <= n

normalizerFrame(x, out) ==
    /\ Len(out) >= Len(x)
    /\ \A i \in 1..Len(x) :
          IF out[i] = x[i] THEN TRUE ELSE out[i] = "<" /\ x[i] \in {"S", "L", "C", "K"}
    /\ \A i \in (Len(x) + 1)..Len(out) : out[i] = "<"

tailFrame(before, after) ==
    /\ Len(after) = Len(before)
    /\ \A i \in 1..(Len(before) - TrailingRun(before)) : after[i] = before[i]

\* C23: every character of the normalized line within the length of the
\* (upper-case) input is the input's, or is a filler where the input has S, L,
\* C or K; the line is not shorter than the input and is all fillers beyond it;
\* and rule 3 changes no character before the maximal trailing run of L, C, K
\* and fillers.
C23_NormalizerFrame ==
    pc = "cleaned" =>
        /\ normalizerFrame(arg, ret)
        /\ tailFrame(fixSeparators(fixStart(arg)), fixTail(fixSeparators(fixStart(arg))))

\* an S at the start and a K in the trailing run have become fillers
C23_Witness ==
    /\ pc = "cleaned"
    /\ arg[2] = "S" /\ ret[2] = "<"
    /\ \E j \in 6..Len(arg) : arg[j] = "K" /\ ret[j] = "<"

\* ---- C26 ----
\* C26, as stated: for a line that begins P< or I< and three letters, the
\* normalized line has the same first five characters.
C26_IssuerCodeKept ==
    (/\ pc = "cleaned"
     /\ arg[1] \in {"P", "I"} /\ arg[2] = "<"
     /\ \A i \in 3..5 : arg[i] \in UpperSet) =>
        SubSeq(ret, 1, 5) = SubSeq(arg, 1, 5)

\* ---- C24 ----
TD3CheckOrder ==
    <<"Document Number", "Date of Birth", "Expiration Date", "Personal Number", "Composite (Final)">>
TD3CheckLines == <<2, 2, 2, 2, 2>>
TD1CheckOrder == <<"Document Number", "Date of Birth", "Expiration Date", "Composite (Final)">>
TD1CheckLines == <<1, 2, 2, 2>>

\* the entries of errors name checks of order, each at most once and in that
\* order, with the line of the check
errorShape(errors, order, lineOf) ==
    /\ Len(errors) <= Len(order)
    /\ \A i \in 1..Len(errors) :
          /\ errors[i].type \in Range(order)
          /\ errors[i].line = lineOf[IndexOf(order, errors[i].type)]
          /\ errors[i].line >= 1
    /\ \A i \in 1..Len(errors) : \A j \in 1..Len(errors) :
          i < j => IndexOf(order, errors[i].type) < IndexOf(order, errors[j].type)

\* C24: the error list of a TD3 record has at most 5 entries, at most one per
\* check, in the order Document Number, Date of Birth, Expiration Date,
\* Personal Number, Composite (Final), each naming line 2; that of a TD1 record
\* at most 4, in the order Document Number (line 1), Date of Birth, Expiration
\* Date, Composite (Final) (line 2).
C24_ErrorListShape ==
    pc = "decoded" =>
        IF Len(arg) = 2 THEN errorShape(ret.errors, TD3CheckOrder, TD3CheckLines)
        ELSE errorShape(ret.errors, TD1CheckOrder, TD1CheckLines)

C24_Witness ==
    /\ pc = "decoded" /\ Len(arg) = 3
    /\ errorLabels(ret.errors) = <<"Document Number", "Date of Birth", "Composite (Final)">>
    /\ ret.errors[1].line = 1 /\ ret.errors[2].line = 2

\* ---- C27 ----
\* the field s with the declared check digit c passes / fails verifyField
passes(s, c) == verifyField(s, Digits[c + 1], "Field", 1) = Null

\* C27: replacing one digit of a string by a different digit changes its check
\* digit, so the changed string fails verifyField against the check digit the
\* unchanged string passes with.
C27_SingleDigitDetected ==
    pc = "calculated" =>
        \A i \in 1..Len(arg) : \A d \in DigitSet :
            (arg[i] \in DigitSet /\ d # arg[i]) =>
                /\ calculateCheckDigit([arg EXCEPT ![i] = d]) # ret
                /\ passes(arg, ret)
                /\ ~passes([arg EXCEPT ![i] = d], ret)

\* a digit under each of the three weights
C27_Witness == pc = "calculated" /\ arg = <<"9", "1", "0">> /\ ret = 6

\* ---- C25 ----
\* the three outcomes of a run
outcomeRecord == parsedResult # Null /\ error = Null
outcomeTooFew == parsedResult = Null /\ error = ErrNoMrz
outcomeNoFit == parsedResult = Null /\ error = ErrNoFit
exactlyOneOutcome ==
    Cardinality({o \in {"record", "too few", "no fit"} :
                    IF o = "record" THEN outcomeRecord
                    ELSE IF o = "too few" THEN outcomeTooFew
                    ELSE outcomeNoFit}) = 1

\* C25: once the text is recognized the run ends, and a run that has ended has
\* produced exactly one of a record, the too-few-lines error and the
\* no-format-fit error; a record and an error are never both there.
C25_ResolverTerminates ==
    /\ [](pc = "done" => (exactlyOneOutcome /\ ~isProcessing))
    /\ [](~(parsedResult # Null /\ error # Null))
    /\ ((pc = "recognized") ~> (pc = "done"))

\* a run that ended after every triple of two 44-character lines was tried
C25_Witness == pc = "done" /\ nTD1 >= 225 /\ outcomeRecord

\* ---- C28 ----
crossFormat(rec, pairs, triples, kP, kT) ==
    /\ (pairs # <<>> /\ kP = 0 /\ kT = 0) =>
          /\ rec # Null
          /\ rec.unifiedJson.document_type = "PASSPORT"
          /\ rec.unifiedJson.verification_status = "INVALID"
    /\ (kP = 0 /\ kT # 0) =>
          /\ rec # Null
          /\ rec.unifiedJson = Decoded(triples[kT])
          /\ rec.unifiedJson.document_type = "ID_CARD"
          /\ rec.unifiedJson.verification_status = "VALID"
    /\ (pairs = <<>> /\ triples # <<>> /\ kT = 0) =>
          /\ rec # Null
          /\ rec.unifiedJson = Decoded(triples[1])

\* C28: when no 44-wide pair validates, an INVALID record of the TD3 attempt is
\* kept if no 30-wide triple validates (the record stays PASSPORT) and gives
\* way to the first triple that validates (the record is ID_CARD and VALID);
\* without a TD3 record and without a triple that validates, the record is
\* the one of the first triple.
C28_CrossFormatFallback ==
    (pc = "done" /\ Len(mrzLines) >= 2) =>
        crossFormat(parsedResult, PairsInOrder(mrzLines), TriplesInOrder(mrzLines),
                    FirstValidIndex(PairsInOrder(mrzLines)),
                    FirstValidIndex(TriplesInOrder(mrzLines)))

\* an INVALID passport record has given way to a VALID ID card
C28_Witness ==
    /\ pc = "done" /\ parsedResult # Null
    /\ nTD3 > 0
    /\ parsedResult.unifiedJson.document_type = "ID_CARD"
    /\ parsedResult.unifiedJson.verification_status = "VALID"

\* C29: whenever parsedResult holds a record, the record was decoded from the
\* file that is selected: the file the scan handed to the OCR engine is the
\* file of the page.
C29_RecordOfSelectedFile == parsedResult # Null => input = file

====
